---- MODULE Spec2Model ----
(***************************************************************************)
(* viz-observer: tracking the on-page position of DOM elements with a      *)
(* ResizeObserver and one IntersectionObserver per element.                *)
(*                                                                         *)
(* The repository holds several revisions of the tracker.  The variable    *)
(* impl selects the one a behaviour runs:                                  *)
(*   "p0"     class VisualObserver of src/unnamed/part_000                 *)
(*   "ts"     class VisualObserver of src/src/index.ts                     *)
(*   "p1"     class VisualObserver of src/unnamed/part_001, lines 230-383  *)
(*   "legacy" function vizObserver of src/index.js                         *)
(*                                                                         *)
(* Lengths are fixed-point numbers, SubPx units to the CSS pixel, so that  *)
(* Math.floor is a real operation.  Ratios are fixed-point numbers with    *)
(* One standing for 1.0 and Epsilon for 0.0000001.                         *)
(*                                                                         *)
(* Every handler runs to completion on the single UI thread: one action    *)
(* per handler.  The consumer's callback may call back into the tracker    *)
(* (parameter react); that call is applied where the code invokes the      *)
(* callback, and the rest of the handler runs after it.  A handler that     *)
(* invokes no callback gives the consumer no occasion to call back.        *)
(***************************************************************************)
EXTENDS Integers, Sequences, FiniteSets, TLC

\* ------------------------------------------------------------------ bounds

\* Units to the CSS pixel of the fixed-point lengths.
SubPx == 2

\* ------------------------------------------------------- program constants

\* 1.0 as a ratio: the threshold of a refreshed element.
One == 10000000
\* 0.0000001 as a ratio: "just needs to be non-zero".
Epsilon == 1

\* ------------------------------------------------------------- input sets

Targets == {"a", "b"}
Root == "root"
EngineImpls == {"p0", "ts", "p1"}
Impls == EngineImpls \cup {"legacy"}

\* Observed intersection ratios: 0.0, 0.5 and 1.0.
Ratios == {0, One \div 2, One}

Rect(l, t, w, h) == [left |-> l, top |-> t, width |-> w, height |-> h]

\* Viewport-relative boxes an element may have (getBoundingClientRect).
\* Element a: empty at a position, a zero-height line, and a box at two
\* places (the second off the pixel grid).  Element b keeps one box.
BoxesOf(t) ==
  IF t = "a"
  THEN { Rect(3, 5, 0, 0), Rect(3, 5, 4, 0), Rect(3, 5, 4, 6), Rect(2, 8, 4, 6) }
  ELSE { Rect(6, 1, 2, 2) }
Boxes == UNION { BoxesOf(t) : t \in {"a", "b"} }

\* Scroll offsets of the root: scrolled, by different amounts on the two axes.
Scrolls == { [left |-> 1, top |-> 2] }

\* Outer sizes of the root.
RootSizes ==
  { [width |-> 10 * SubPx, height |-> 12 * SubPx],
    [width |-> 8 * SubPx, height |-> 12 * SubPx] }

\* What the consumer does inside its callback.
Reactions ==
  { [op |-> "none", t |-> "-"], [op |-> "disconnect", t |-> "-"] }
    \cup { [op |-> "unobserve", t |-> t] : t \in Targets }
NoReaction == [op |-> "none", t |-> "-"]

\* The environment before it comes to rest.
NoSteady == [t |-> "-", ratio |-> 0, n |-> 0]

\* ------------------------------------------------------------------ state

VARIABLES
  impl,           \* the revision this behaviour runs
  order,          \* #elements: its keys in insertion order
  el,             \* #elements: the VisualObserverElement of each key
  rootRect,       \* #rootRect (p0)
  roTargets,      \* #resizeObserver: observation targets, in order
  roPending,      \* #resizeObserver: targets with a notification to deliver
  ioLive,         \* platform: live IntersectionObservers observing each element
  box,            \* environment: each element's viewport-relative box
  scroll,         \* environment: scroll offsets of the root
  rootSize,       \* environment: outer size of the root
  steady,         \* environment: at rest or not; at rest, the element watched, the
                  \* ratio each of its IntersectionObservers first reports, and
                  \* the number of notifications delivered since, modulo 2
  hasResizeObserver, \* legacy: whether window.ResizeObserver exists
  activeObservers,   \* legacy: the refresh handlers of the live trackers, in insertion order
  globalResize,      \* legacy: whether controlGlobalResize is enabled
  trk,               \* legacy: each vizObserver call's closure variables
  tracked,        \* history: targets between observe and unobserve/disconnect
  last,           \* the operation of the last step
  constructed,    \* the IntersectionObservers the last step constructed, with their options
  delivered       \* the callback invocations of the last step, each a list of entries

engineVars == <<order, el, rootRect, roTargets, roPending, ioLive>>
legacyVars == <<activeObservers, globalResize, trk>>
envVars == <<box, scroll, rootSize, steady>>
vars == <<impl, order, el, rootRect, roTargets, roPending, ioLive,
          hasResizeObserver, activeObservers, globalResize, trk,
          box, scroll, rootSize, steady, tracked, last, constructed, delivered>>

\* --------------------------------------------------------------- platform

Range(s) == { s[i] : i \in 1..Len(s) }
Without(s, x) == SelectSeq(s, LAMBDA y : y # x)

\* Math.floor of a length, in whole pixels.
Floor(v) == v \div SubPx

\* An IntersectionObserver handle: none, released, or live with the threshold
\* it was constructed with.
NullIO == [st |-> "null", threshold |-> 0]
DeadIO == [st |-> "dead", threshold |-> 0]
LiveIO(th) == [st |-> "live", threshold |-> th]

\* target.getBoundingClientRect()
Measure(t) == box[t]

\* ResizeObserverEntry.contentRect: the content box in the element's own
\* coordinates (padding none), not its position in the viewport.
ContentRect(t) ==
  IF t = Root THEN Rect(0, 0, rootSize.width, rootSize.height)
  ELSE Rect(0, 0, box[t].width, box[t].height)

\* ResizeObserver.observe: a target already observed is unobserved first; the
\* new observation delivers an initial notification.
RoObserve(s, t) ==
  [s EXCEPT !.roTargets = Append(Without(@, t), t), !.roPending = @ \cup {t}]
RoUnobserve(s, t) ==
  [s EXCEPT !.roTargets = Without(@, t), !.roPending = @ \ {t}]
RoDisconnect(s) ==
  [s EXCEPT !.roTargets = <<>>, !.roPending = {}]

\* The entries of one ResizeObserver delivery, in observation order.
RoBatch(targets, pending) ==
  LET due == SelectSeq(targets, LAMBDA t : t \in pending)
  IN [i \in 1..Len(due) |-> [target |-> due[i], contentRect |-> ContentRect(due[i])]]

\* ----------------------------------------------------- the tracker's state

\* A fresh VisualObserverElement: {io: null, threshold: 1, isFirstUpdate: true}.
InitEl == [io |-> NullIO, threshold |-> One, isFirstUpdate |-> TRUE]

\* The tracker and its platform objects as one value, threaded through the
\* statements of a handler.
Cur ==
  [order |-> order, el |-> el, rootRect |-> rootRect, roTargets |-> roTargets,
   roPending |-> roPending, ioLive |-> ioLive, tracked |-> tracked, made |-> <<>>]

Has(s, t) == t \in Range(s.order)

\* #elements.set(t, e)
SetEl(s, t, e) ==
  [s EXCEPT !.el[t] = e, !.order = IF t \in Range(@) THEN @ ELSE Append(@, t)]

\* #elements.delete(t)
DeleteEl(s, t) ==
  [s EXCEPT !.el[t] = InitEl, !.order = Without(@, t)]

\* ------------------------------------------------------------- geometry

\* x = left + scrollLeft, y = top + scrollTop
DocX(rect) == rect.left + scroll.left
DocY(rect) == rect.top + scroll.top

\* #rootRect exists in part_000 only.
NoRootRect == [width |-> 0, height |-> 0]

\* The root's size a refresh reads: #rootRect in p0, offsetWidth/offsetHeight
\* elsewhere.
RootDims(s) == IF impl = "p0" THEN s.rootRect ELSE rootSize

\* rootMargin: `${-insetTop}px ${-insetRight}px ${-insetBottom}px ${-insetLeft}px`
RootMargin(x, y, w, h, dims) ==
  << -Floor(y), -Floor(dims.width - (x + w)), -Floor(dims.height - (y + h)), -Floor(x) >>

\* #refreshElement without its `if (width === 0 && height === 0)` return.
IsDegenerateNever(rect) == FALSE

\* "Don't create a IntersectionObserver until the target has a size."
IsDegenerate(rect) ==
  IF impl = "legacy" THEN rect.width = 0 \/ rect.height = 0
  ELSE rect.width = 0 /\ rect.height = 0

\* The isAppearing flag of the entry a subscribing refresh returns.
AppearingFlag == impl # "ts"

Entry(t, x, y, w, h, appear) ==
  [target |-> t, x |-> x, y |-> y, width |-> w, height |-> h, isAppearing |-> appear]
NoEntry == Entry("-", 0, 0, 0, 0, FALSE)

\* ------------------------------------------------- IntersectionObservers

\* io.disconnect() on a handle: a live observer stops observing.
IoDisconnect(s, t, h) ==
  IF h.st = "live" THEN [s EXCEPT !.ioLive[t] = @ - 1] ELSE s

\* What the handle field holds after `el.io?.disconnect()`: p0 also sets it
\* to null, the others keep the released observer.
Released(h) ==
  IF impl = "p0" \/ h.st = "null" THEN NullIO ELSE DeadIO

\* new IntersectionObserver(cb, {root, rootMargin, threshold}).observe(t)
IoObserve(s, t, th, m) ==
  [s EXCEPT !.ioLive[t] = @ + 1,
            !.made = Append(@, [target |-> t, threshold |-> th, rootMargin |-> m])]

\* ------------------------------------------------------ #refreshElement

\* #refreshElement(target, contentRect): the state after it, the entry it
\* returns, and whether it threw.
RefreshElement(s, t, rect) ==
  IF ~Has(s, t) /\ impl # "ts"
  THEN [s |-> s, entry |-> NoEntry, err |-> TRUE]
  ELSE
    LET s1 == IF Has(s, t) THEN s ELSE SetEl(s, t, InitEl)
        e1 == s1.el[t]
        s2 == [IoDisconnect(s1, t, e1.io) EXCEPT !.el[t].io = Released(e1.io)]
    IN IF IsDegenerate(rect)
       THEN [s |-> s2,
             entry |-> Entry(t, rect.left, rect.top, rect.width, rect.height, FALSE),
             err |-> FALSE]
       ELSE
         LET x == DocX(rect)
             y == DocY(rect)
             m == RootMargin(x, y, rect.width, rect.height, RootDims(s2))
             threshold == e1.threshold
             s3 == [IoObserve(s2, t, threshold, m) EXCEPT
                      !.el[t] = [io |-> LiveIO(threshold),
                                 threshold |-> One,
                                 isFirstUpdate |-> TRUE]]
         IN [s |-> s3,
             entry |-> Entry(t, x, y, rect.width, rect.height, AppearingFlag),
             err |-> FALSE]

\* ---------------------------------------------- observe/unobserve/disconnect

\* observe(target)
Observe(s, t) ==
  LET u == [s EXCEPT !.tracked = @ \cup {t}]
  IN IF Has(u, t) THEN u
     ELSE
       LET s1 == IF Len(u.order) = 0 THEN RoObserve(u, Root) ELSE u
           s2 == IF impl = "ts" THEN s1 ELSE SetEl(s1, t, InitEl)
       IN RoObserve(s2, t)

\* unobserve(target) that leaves the element's IntersectionObserver observing.
UnobserveKeepingIo(s, t) ==
  LET u == [s EXCEPT !.tracked = @ \ {t}]
  IN IF ~Has(u, t) THEN u
     ELSE
       LET s1 == RoUnobserve(u, t)
           s4 == DeleteEl(s1, t)
       IN IF Len(s4.order) = 0 THEN RoDisconnect(s4) ELSE s4

\* unobserve(target)
Unobserve(s, t) ==
  LET u == [s EXCEPT !.tracked = @ \ {t}]
  IN IF ~Has(u, t) THEN u
     ELSE
       LET h == u.el[t].io
           s1 == RoUnobserve(u, t)
           s2 == IoDisconnect(s1, t, h)
           s4 == DeleteEl(s2, t)
       IN IF Len(s4.order) = 0 THEN RoDisconnect(s4) ELSE s4

\* disconnect() that leaves the ResizeObserver observing.
DisconnectKeepingRo(s) ==
  LET u == [s EXCEPT !.tracked = {}]
      wasLive == { t \in Range(u.order) : u.el[t].io.st = "live" }
  IN [u EXCEPT
        !.ioLive = [t \in Targets |->
                      IF t \in wasLive THEN u.ioLive[t] - 1 ELSE u.ioLive[t]],
        !.el = [t \in Targets |-> InitEl],
        !.order = <<>>]

\* disconnect()
Disconnect(s) ==
  LET u == [s EXCEPT !.tracked = {}]
      wasLive == { t \in Range(u.order) : u.el[t].io.st = "live" }
      s1 == [u EXCEPT
               !.ioLive = [t \in Targets |->
                             IF t \in wasLive THEN u.ioLive[t] - 1 ELSE u.ioLive[t]],
               !.el = [t \in Targets |-> InitEl],
               !.order = <<>>]
  IN RoDisconnect(s1)

\* The consumer's call from inside its callback.
React(s, r) ==
  CASE r.op = "unobserve" -> Unobserve(s, r.t)
    [] r.op = "disconnect" -> Disconnect(s)
    [] OTHER -> s

\* ---------------------------------------------- the #resizeObserver callback

\* Refresh each <<target, rect>> of todo in turn, collecting the entries; a
\* refresh that throws ends the handler.
RECURSIVE RefreshEach(_, _, _)
RefreshEach(s, todo, acc) ==
  IF Len(todo) = 0 THEN [s |-> s, entries |-> acc, err |-> FALSE]
  ELSE
    LET r == RefreshElement(s, Head(todo)[1], Head(todo)[2])
    IN IF r.err THEN [s |-> r.s, entries |-> acc, err |-> TRUE]
       ELSE RefreshEach(r.s, Tail(todo), Append(acc, r.entry))

\* this.#elements.forEach((_, target) => ... #refreshElement(target)): every
\* key, in insertion order, measured afresh.
AllMeasured(s) == [i \in 1..Len(s.order) |-> <<s.order[i], Measure(s.order[i])>>]

HasRootEntry(entries) == \E i \in 1..Len(entries) : entries[i].target = Root

\* this.#callback(entries, this), and what the consumer does in it.
Invoke(s, entries, react) == [s |-> React(s, react), out |-> <<entries>>, err |-> FALSE]
Thrown(s) == [s |-> s, out |-> <<>>, err |-> TRUE]
Silent(s) == [s |-> s, out |-> <<>>, err |-> FALSE]

\* part_000: a root entry anywhere in the batch refreshes every element;
\* otherwise each notified element is measured afresh.
ResizeCallbackP0(s, entries, react) ==
  LET rootAt == { i \in 1..Len(entries) : entries[i].target = Root }
      s1 == IF rootAt = {} THEN s
            ELSE LET i == CHOOSE j \in rootAt : TRUE
                 IN [s EXCEPT !.rootRect = [width |-> entries[i].contentRect.width,
                                            height |-> entries[i].contentRect.height]]
      todo == IF rootAt # {} THEN AllMeasured(s1)
              ELSE [i \in 1..Len(entries) |-> <<entries[i].target, Measure(entries[i].target)>>]
      r == RefreshEach(s1, todo, <<>>)
  IN IF r.err THEN Thrown(r.s) ELSE Invoke(r.s, r.entries, react)

\* part_001: as part_000, with the notified element's contentRect passed on.
ResizeCallbackP1(s, entries, react) ==
  LET todo == IF HasRootEntry(entries) THEN AllMeasured(s)
              ELSE [i \in 1..Len(entries) |-> <<entries[i].target, entries[i].contentRect>>]
      r == RefreshEach(s, todo, <<>>)
  IN IF r.err THEN Thrown(r.s) ELSE Invoke(r.s, r.entries, react)

\* index.ts: the entries are walked in order; the root's entry refreshes every
\* element and returns, without the callback.
RECURSIVE ResizeLoopTs(_, _, _, _)
ResizeLoopTs(s, entries, acc, react) ==
  IF Len(entries) = 0 THEN Invoke(s, acc, react)
  ELSE IF Head(entries).target = Root
  THEN Silent(RefreshEach(s, AllMeasured(s), <<>>).s)
  ELSE
    LET r == RefreshElement(s, Head(entries).target, Head(entries).contentRect)
    IN ResizeLoopTs(r.s, Tail(entries), Append(acc, r.entry), react)

ResizeCallback(s, entries, react) ==
  CASE impl = "p0" -> ResizeCallbackP0(s, entries, react)
    [] impl = "p1" -> ResizeCallbackP1(s, entries, react)
    [] OTHER -> ResizeLoopTs(s, entries, <<>>, react)

\* ------------------------------------------------------- #onIntersection

\* The first reading's ratio taken as the threshold as it is.
CalibratedRaw(ratio) == ratio

\* The threshold a first reading sets: the ratio, or Epsilon for 0.0.
Calibrated(ratio) == IF ratio = 0 THEN Epsilon ELSE ratio

\* #onIntersection without its `if (el === undefined) return`.
OnIntersectionUnguarded(s, t, ratio, rect, react) ==
  IF ratio # s.el[t].threshold
  THEN
    LET s1 == IF s.el[t].isFirstUpdate
              THEN [s EXCEPT !.el[t].threshold = Calibrated(ratio)]
              ELSE s
        r == RefreshElement(s1, t, rect)
    IN Invoke(r.s, <<r.entry>>, react)
  ELSE Silent(s)

\* #onIntersection without its `if (intersectionRatio !== el.threshold)`.
OnIntersectionAlways(s, t, ratio, rect, react) ==
  IF ~Has(s, t) THEN Silent(s)
  ELSE
    LET s1 == IF s.el[t].isFirstUpdate
              THEN [s EXCEPT !.el[t].threshold = Calibrated(ratio)]
              ELSE s
        r == RefreshElement(s1, t, rect)
        i == Invoke(r.s, <<r.entry>>, react)
        s3 == IF Has(i.s, t) THEN [i.s EXCEPT !.el[t].isFirstUpdate = FALSE] ELSE i.s
    IN [i EXCEPT !.s = s3]

\* #onIntersection([{target, intersectionRatio, boundingClientRect}])
OnIntersection(s, t, ratio, rect, react) ==
  IF ~Has(s, t) THEN Silent(s)
  ELSE IF ratio # s.el[t].threshold
  THEN
    LET s1 == IF s.el[t].isFirstUpdate
              THEN [s EXCEPT !.el[t].threshold = Calibrated(ratio)]
              ELSE s
        r == RefreshElement(s1, t, rect)
        i == Invoke(r.s, <<r.entry>>, react)
        \* el.isFirstUpdate = false, on the object read at entry
        s3 == IF Has(i.s, t) THEN [i.s EXCEPT !.el[t].isFirstUpdate = FALSE] ELSE i.s
    IN [i EXCEPT !.s = s3]
  ELSE Silent([s EXCEPT !.el[t].isFirstUpdate = FALSE])

\* ------------------------------------------------ vizObserver (src/index.js)

\* The closure of one IntersectionObserver callback: its threshold parameter
\* and its isFirstUpdate variable.
LNullIO == [st |-> "null", threshold |-> 0, isFirstUpdate |-> FALSE]
LLiveIO(th) == [st |-> "live", threshold |-> th, isFirstUpdate |-> TRUE]

\* One vizObserver call: not made, active, or released; io, ro (observing) and
\* released are its variables.
InitTrk == [st |-> "none", io |-> LNullIO, ro |-> FALSE]

LCur ==
  [active |-> activeObservers, global |-> globalResize, trk |-> trk,
   ioLive |-> ioLive, roPending |-> roPending, tracked |-> tracked, made |-> <<>>]

\* controlGlobalResize(enable): the document's ResizeObserver observes the root
\* (with an initial notification), or the window's resize listener is set.
ControlGlobalResize(s, enable) ==
  IF enable
  THEN [s EXCEPT !.global = TRUE,
                 !.roPending = IF hasResizeObserver THEN @ \cup {Root} ELSE @]
  ELSE [s EXCEPT !.global = FALSE, !.roPending = @ \ {Root}]

\* abort() without its `if (activeObservers.size === 0)`.
AbortDisabling(s, t) ==
  IF s.trk[t].st # "active" THEN s
  ELSE
    LET h == s.trk[t].io
        s1 == [s EXCEPT !.trk[t].st = "released",
                        !.tracked = @ \ {t},
                        !.trk[t].ro = FALSE,
                        !.roPending = @ \ {t}]
        s2 == IF h.st = "live"
              THEN [IoDisconnect(s1, t, h) EXCEPT
                      !.trk[t].io = [LNullIO EXCEPT !.st = "dead"]]
              ELSE s1
        s3 == [s2 EXCEPT !.active = Without(@, t)]
    IN ControlGlobalResize(s3, FALSE)

\* abort(): the cleanup function, also the signal's abort listener.
Abort(s, t) ==
  IF s.trk[t].st # "active" THEN s
  ELSE
    LET h == s.trk[t].io
        s1 == [s EXCEPT !.trk[t].st = "released",
                        !.tracked = @ \ {t},
                        !.trk[t].ro = FALSE,
                        !.roPending = @ \ {t}]
        s2 == IF h.st = "live"
              THEN [IoDisconnect(s1, t, h) EXCEPT
                      !.trk[t].io = [LNullIO EXCEPT !.st = "dead"]]
              ELSE s1
        s3 == [s2 EXCEPT !.active = Without(@, t)]
    IN IF Len(s3.active) = 0 THEN ControlGlobalResize(s3, FALSE) ELSE s3

\* The consumer's call from inside its callback: a tracker's cleanup function.
LReact(s, r) == IF r.op = "unobserve" THEN Abort(s, r.t) ELSE s

\* refresh(threshold): the state after it and the callback invocations made.
Refresh(s, t, threshold, react) ==
  LET h == s.trk[t].io
      s1 == [IoDisconnect(s, t, h) EXCEPT !.trk[t].io = LNullIO]
      rect == Measure(t)
      top == DocY(rect)
      left == DocX(rect)
  IN IF IsDegenerate(rect)
     THEN [s |-> LReact(s1, react), out |-> << <<Entry(t, 0, 0, 0, 0, FALSE)>> >>]
     ELSE
       LET s2 == LReact(s1, react)
           m == RootMargin(left, top, rect.width, rect.height, rootSize)
           s3 == [IoObserve(s2, t, threshold, m) EXCEPT !.trk[t].io = LLiveIO(threshold)]
       IN [s |-> s3,
           out |-> << <<Entry(t, left, top, rect.width, rect.height, TRUE)>> >>]

\* vizObserver(element, callback, options)
VizObserver(s, t, react) ==
  LET s1 == [s EXCEPT !.active = Append(@, t),
                      !.trk[t].st = "active",
                      !.tracked = @ \cup {t}]
      s2 == IF Len(s1.active) = 1 THEN ControlGlobalResize(s1, TRUE) ELSE s1
      r == Refresh(s2, t, One, react)
      s3 == IF hasResizeObserver
            THEN [r.s EXCEPT !.trk[t].ro = TRUE, !.roPending = @ \cup {t}]
            ELSE r.s
  IN [s |-> s3, out |-> r.out]

\* globalResizeHandler: activeObservers.forEach((handler) => handler()); a
\* handler deleted before its turn is not called.
RECURSIVE GlobalResizeHandler(_, _, _, _)
GlobalResizeHandler(s, todo, acc, react) ==
  IF Len(todo) = 0 THEN [s |-> s, out |-> acc]
  ELSE IF Head(todo) \notin Range(s.active)
  THEN GlobalResizeHandler(s, Tail(todo), acc, react)
  ELSE
    LET r == Refresh(s, Head(todo), One, react)
    IN GlobalResizeHandler(r.s, Tail(todo), acc \o r.out, react)

\* The IntersectionObserver callback of the closure that tracker t holds.
IoCallback(s, t, ratio, react) ==
  LET h == s.trk[t].io
  IN IF h.threshold # ratio
     THEN IF ~h.isFirstUpdate
          THEN Refresh(s, t, One, react)
          ELSE Refresh(s, t, Calibrated(ratio), react)
     ELSE [s |-> [s EXCEPT !.trk[t].io.isFirstUpdate = FALSE], out |-> <<>>]

\* ------------------------------------------------------------ behaviours

\* The last step: its operation, the target it was about, whether it threw.
\* A disconnect names the root when the root was registered before it.
\* "observe" is an observe of a target not tracked before it, "reobserve" of a
\* tracked one; "initial" is the size-change delivery that follows an observe
\* at once and reports its target, "resize" any other delivery.
Op(op, t, err) == [op |-> op, t |-> t, err |-> err]

\* Whether the callback invocations out hold an entry for t.
Reported(out, t) ==
  \E i \in 1..Len(out) : \E j \in 1..Len(out[i]) : out[i][j].target = t

Init ==
  /\ impl \in Impls
  /\ order = <<>>
  /\ el = [t \in Targets |-> InitEl]
  /\ box \in { f \in [Targets -> Boxes] : \A t \in Targets : f[t] \in BoxesOf(t) }
  /\ scroll \in Scrolls
  /\ rootSize \in RootSizes
  /\ steady = NoSteady
  /\ rootRect = IF impl = "p0" THEN rootSize ELSE NoRootRect
  /\ roTargets = <<>>
  /\ roPending = {}
  /\ ioLive = [t \in Targets |-> 0]
  /\ hasResizeObserver \in (IF impl = "legacy" THEN BOOLEAN ELSE {TRUE})
  /\ activeObservers = <<>>
  /\ globalResize = FALSE
  /\ trk = [t \in Targets |-> InitTrk]
  /\ tracked = {}
  /\ last = Op("init", "-", FALSE)
  /\ constructed = <<>>
  /\ delivered = <<>>

\* The tracker's and the platform's variables take the fields of s.
InstallTracker(s) ==
  /\ order' = s.order
  /\ el' = s.el
  /\ rootRect' = s.rootRect
  /\ roTargets' = s.roTargets
  /\ roPending' = s.roPending
  /\ ioLive' = s.ioLive
  /\ tracked' = s.tracked
  /\ constructed' = s.made
  /\ UNCHANGED <<impl, hasResizeObserver, legacyVars, box, scroll, rootSize>>

Install(s) == InstallTracker(s) /\ UNCHANGED steady

LInstall(s) ==
  /\ activeObservers' = s.active
  /\ globalResize' = s.global
  /\ trk' = s.trk
  /\ ioLive' = s.ioLive
  /\ roPending' = s.roPending
  /\ tracked' = s.tracked
  /\ constructed' = s.made
  /\ UNCHANGED <<impl, hasResizeObserver, order, el, rootRect, roTargets, envVars>>

\* --- the environment

\* An element's box changes; a size change is reported to the ResizeObserver
\* observing the element.
SetBox(t, b) ==
  /\ b \in BoxesOf(t)
  /\ b # box[t]
  /\ box' = [box EXCEPT ![t] = b]
  /\ LET resized == b.width # box[t].width \/ b.height # box[t].height
         observed == IF impl = "legacy" THEN trk[t].ro ELSE t \in Range(roTargets)
     IN roPending' = IF resized /\ observed THEN roPending \cup {t} ELSE roPending
  /\ last' = Op("setBox", t, FALSE)
  /\ delivered' = <<>>
  /\ constructed' = <<>>
  /\ UNCHANGED <<impl, order, el, rootRect, roTargets, ioLive,
                 hasResizeObserver, legacyVars, scroll, rootSize, steady, tracked>>

\* The root changes size; the ResizeObserver observing it (or the window's
\* resize listener) is notified.
RootResize(sz) ==
  /\ sz \in RootSizes
  /\ sz # rootSize
  /\ rootSize' = sz
  /\ LET observed == IF impl = "legacy" THEN globalResize ELSE Root \in Range(roTargets)
     IN roPending' = IF observed THEN roPending \cup {Root} ELSE roPending
  /\ last' = Op("rootResize", Root, FALSE)
  /\ delivered' = <<>>
  /\ constructed' = <<>>
  /\ UNCHANGED <<impl, order, el, rootRect, roTargets, ioLive,
                 hasResizeObserver, legacyVars, box, scroll, steady, tracked>>

\* --- the consumer's calls on a VisualObserver

DoObserve(t) ==
  /\ impl \in EngineImpls
  /\ Install(Observe(Cur, t))
  /\ last' = Op(IF t \in tracked THEN "reobserve" ELSE "observe", t, FALSE)
  /\ delivered' = <<>>

DoUnobserve(t) ==
  /\ impl \in EngineImpls
  /\ Install(Unobserve(Cur, t))
  /\ last' = Op("unobserve", t, FALSE)
  /\ delivered' = <<>>

DoDisconnect ==
  /\ impl \in EngineImpls
  /\ Install(Disconnect(Cur))
  /\ last' = Op("disconnect", IF Root \in Range(roTargets) THEN Root ELSE "-", FALSE)
  /\ delivered' = <<>>

\* --- the platform's callbacks into a VisualObserver

\* The ResizeObserver delivers its pending notifications as one batch.
DeliverResize(react) ==
  /\ impl \in EngineImpls
  /\ roPending # {}
  /\ \E r \in { ResizeCallback([Cur EXCEPT !.roPending = {}],
                             RoBatch(roTargets, roPending), react) } :
        /\ (r.out = <<>> => react = NoReaction)
        /\ Install(r.s)
        /\ last' = IF last.op = "observe" /\ Reported(r.out, last.t)
                   THEN Op("initial", last.t, r.err)
                   ELSE Op("resize", "-", r.err)
        /\ delivered' = r.out

\* A live IntersectionObserver of t notifies.
Intersect(t, ratio, react) ==
  /\ impl \in EngineImpls
  /\ ioLive[t] > 0
  /\ \E r \in { OnIntersection(Cur, t, ratio, box[t], react) } :
        /\ (r.out = <<>> => react = NoReaction)
        /\ Install(r.s)
        /\ last' = Op("intersect", t, r.err)
        /\ delivered' = r.out

\* A notification that was queued when t's observer was released (by
\* unobserve or disconnect) is delivered after it; the consumer is not asked
\* what it does in a callback that such a notification does not reach.
StaleIntersect(t, ratio) ==
  /\ impl \in EngineImpls
  /\ ioLive[t] = 0
  /\ ~Has(Cur, t)
  /\ \E r \in { OnIntersection(Cur, t, ratio, box[t], NoReaction) } :
        /\ Install(r.s)
        /\ last' = Op("stale", t, r.err)
        /\ delivered' = r.out

\* --- vizObserver

\* vizObserver(t, callback, {signal}); inside the callback the consumer can
\* only release another tracker: this one's cleanup is not yet returned.
Track(t, react) ==
  /\ impl = "legacy"
  /\ trk[t].st = "none"
  /\ react.op # "disconnect" /\ react.t # t
  /\ \E r \in { VizObserver(LCur, t, react) } :
        /\ (r.out = <<>> => react = NoReaction)
        /\ LInstall(r.s)
        /\ last' = Op("track", t, FALSE)
        /\ delivered' = r.out

\* The cleanup function is called, or the signal aborts.
Cancel(t) ==
  /\ impl = "legacy"
  /\ trk[t].st # "none"
  /\ LInstall(Abort(LCur, t))
  /\ last' = Op("cancel", t, FALSE)
  /\ delivered' = <<>>

\* The tracker's own ResizeObserver notifies: refresh().
ElementResize(t, react) ==
  /\ impl = "legacy"
  /\ t \in roPending
  /\ react.op # "disconnect"
  /\ \E r \in { Refresh([LCur EXCEPT !.roPending = @ \ {t}], t, One, react) } :
        /\ (r.out = <<>> => react = NoReaction)
        /\ LInstall(r.s)
        /\ last' = Op("elementResize", t, FALSE)
        /\ delivered' = r.out

\* The document's ResizeObserver (or the window's resize event) notifies.
GlobalResize(react) ==
  /\ impl = "legacy"
  /\ Root \in roPending
  /\ react.op # "disconnect"
  /\ \E r \in { GlobalResizeHandler([LCur EXCEPT !.roPending = @ \ {Root}],
                                  activeObservers, <<>>, react) } :
        /\ (r.out = <<>> => react = NoReaction)
        /\ LInstall(r.s)
        /\ last' = Op("globalResize", Root, FALSE)
        /\ delivered' = r.out

\* The IntersectionObserver that tracker t holds notifies.
LegacyIntersect(t, ratio, react) ==
  /\ impl = "legacy"
  /\ trk[t].io.st = "live"
  /\ react.op # "disconnect"
  /\ \E r \in { IoCallback(LCur, t, ratio, react) } :
        /\ (r.out = <<>> => react = NoReaction)
        /\ LInstall(r.s)
        /\ last' = Op("legacyIntersect", t, FALSE)
        /\ delivered' = r.out

Next ==
  \/ \E t \in Targets, b \in Boxes : SetBox(t, b)
  \/ \E sz \in RootSizes : RootResize(sz)
  \/ \E t \in Targets : DoObserve(t)
  \/ \E t \in Targets : DoUnobserve(t)
  \/ DoDisconnect
  \/ \E react \in Reactions : DeliverResize(react)
  \/ \E t \in Targets, ratio \in Ratios, react \in Reactions : Intersect(t, ratio, react)
  \/ \E t \in Targets, ratio \in Ratios : StaleIntersect(t, ratio)
  \/ \E t \in Targets, react \in Reactions : Track(t, react)
  \/ \E t \in Targets : Cancel(t)
  \/ \E t \in Targets, react \in Reactions : ElementResize(t, react)
  \/ \E react \in Reactions : GlobalResize(react)
  \/ \E t \in Targets, ratio \in Ratios, react \in Reactions : LegacyIntersect(t, ratio, react)

Spec == Init /\ [][Next]_vars

\* --- one revision at a time

Env ==
  \/ \E t \in Targets, b \in Boxes : SetBox(t, b)
  \/ \E sz \in RootSizes : RootResize(sz)

NextEngine ==
  \/ Env
  \/ \E t \in Targets : DoObserve(t)
  \/ \E t \in Targets : DoUnobserve(t)
  \/ DoDisconnect
  \/ \E react \in Reactions : DeliverResize(react)
  \/ \E t \in Targets, ratio \in Ratios, react \in Reactions : Intersect(t, ratio, react)
  \/ \E t \in Targets, ratio \in Ratios : StaleIntersect(t, ratio)

NextLegacy ==
  \/ Env
  \/ \E t \in Targets, react \in Reactions : Track(t, react)
  \/ \E t \in Targets : Cancel(t)
  \/ \E t \in Targets, react \in Reactions : ElementResize(t, react)
  \/ \E react \in Reactions : GlobalResize(react)
  \/ \E t \in Targets, ratio \in Ratios, react \in Reactions : LegacyIntersect(t, ratio, react)

\* --- the environment at rest

\* The IntersectionObserver of t was constructed by the last step and has
\* its initial notification to deliver.
Pending(t) ==
  /\ ioLive[t] = 1
  /\ \E i \in 1..Len(constructed) : constructed[i].target = t

\* From here on no box, no root size and no scroll offset changes, the
\* consumer makes no call, and every IntersectionObserver of t delivers one
\* notification, its initial one, with the same ratio.
ComeToRest(t, ratio) ==
  /\ impl \in EngineImpls
  /\ steady = NoSteady
  /\ t \in tracked
  /\ roPending = {}
  /\ Pending(t)
  /\ steady' = [t |-> t, ratio |-> ratio, n |-> 0]
  /\ UNCHANGED <<impl, engineVars, hasResizeObserver, legacyVars, box, scroll,
                 rootSize, tracked, last, constructed, delivered>>

\* The initial notification of the IntersectionObserver of the element at
\* rest; the consumer does nothing in its callback.
InitialNotification ==
  /\ impl \in EngineImpls
  /\ steady # NoSteady
  /\ Pending(steady.t)
  /\ \E r \in { OnIntersection(Cur, steady.t, steady.ratio, box[steady.t], NoReaction) } :
        /\ InstallTracker(r.s)
        /\ steady' = [steady EXCEPT !.n = 1 - @]
        /\ last' = Op("intersect", steady.t, r.err)
        /\ delivered' = r.out

NextSteady ==
  \/ steady = NoSteady /\ NextEngine
  \/ \E t \in Targets, ratio \in Ratios : ComeToRest(t, ratio)
  \/ InitialNotification

InitP0 == Init /\ impl = "p0"
InitTs == Init /\ impl = "ts"
InitP1 == Init /\ impl = "p1"
InitLegacy == Init /\ impl = "legacy"
InitP0Ts == Init /\ impl \in {"p0", "ts"}
InitP0Legacy == Init /\ impl \in {"p0", "legacy"}

SpecP0 == InitP0 /\ [][NextEngine]_vars
SpecTs == InitTs /\ [][NextEngine]_vars
SpecP1 == InitP1 /\ [][NextEngine]_vars
SpecLegacy == InitLegacy /\ [][NextLegacy]_vars
SpecP0Ts == InitP0Ts /\ [][NextEngine]_vars
SpecP0Legacy == InitP0Legacy /\ [][Next]_vars

\* The platform delivers the initial notification of every
\* IntersectionObserver that observes an element.
SpecSteadyP0 == InitP0 /\ [][NextSteady]_vars /\ WF_vars(InitialNotification)

\* ------------------------------------------------------------- properties

\* The spec's degenerate box: width = 0 or height = 0.
ZeroBox(b) == b.width = 0 \/ b.height = 0

\* The entries of the callback invocations of the last step.
Entries(out) == UNION { Range(out[i]) : i \in 1..Len(out) }

\* C1: for a tracked element past its first reading, whose live subscription
\* was established at baseline R, a visibility notification with a ratio
\* other than R makes exactly one callback invocation, carrying one entry for
\* the element, and leaves exactly one visibility subscription live for it.
\* (Stated for an element with a non-degenerate box and a consumer that does
\* nothing in its callback.)
C1_MovementDetected ==
  [][\A t \in Targets, ratio \in Ratios :
       (/\ Intersect(t, ratio, NoReaction)
        /\ Has(Cur, t)
        /\ el[t].io.st = "live"
        /\ ~el[t].isFirstUpdate
        /\ ratio # el[t].io.threshold
        /\ ~ZeroBox(box[t]))
       => (/\ Len(delivered') = 1
           /\ Len(delivered'[1]) = 1
           /\ delivered'[1][1].target = t
           /\ ioLive'[t] = 1)]_vars

\* C2: when the first visibility notification after the initial result of
\* observe(target) reports a ratio other than 1.0, the consumer's callback is
\* not invoked.
C2_CalibrationSilent ==
  [][\A t \in Targets, ratio \in Ratios \ {One} :
       (Intersect(t, ratio, NoReaction) /\ last = Op("initial", t, FALSE))
       => delivered' = <<>>]_vars

\* C3: the size-change delivery that follows observe(target) of an untracked
\* target invokes the callback with an entry for the target.
C3_InitialResult ==
  [][(last.op = "observe" /\ last'.op \in {"resize", "initial"})
       => Reported(delivered', last.t)]_vars

\* C4: the entry delivered for an element whose box has width = 0 or
\* height = 0 is {isAppearing: false, x: 0, y: 0, width: 0, height: 0}, and
\* the step constructs no IntersectionObserver for the element.
C4_DegenerateHidden ==
  \A t \in Targets :
    ZeroBox(box[t]) =>
      /\ \A e \in Entries(delivered) : e.target = t => e = Entry(t, 0, 0, 0, 0, FALSE)
      /\ \A i \in 1..Len(constructed) : constructed[i].target # t

\* C5: the entry delivered for an element whose box has a non-zero size has
\* isAppearing = true, the box's width and height, and x = left + scrollLeft,
\* y = top + scrollTop.
C5_EntryGeometry ==
  \A e \in Entries(delivered) :
    ~ZeroBox(box[e.target]) =>
      e = Entry(e.target, box[e.target].left + scroll.left, box[e.target].top + scroll.top,
                box[e.target].width, box[e.target].height, TRUE)

\* C6: observe(target) of a target that is tracked changes nothing of the
\* engine (tracked state, threshold, first-reading flag, visibility
\* subscriptions, the set of size-change registrations and the notifications
\* they have yet to deliver) and invokes no callback.
C6_ObserveIdempotent ==
  [][last'.op = "reobserve" =>
       /\ UNCHANGED <<order, el, ioLive, roPending>>
       /\ Range(roTargets') = Range(roTargets)
       /\ delivered' = <<>>]_vars

\* C7: no callback invocation holds an entry for a target that is not
\* tracked (unobserved and not observed again), and while no element is
\* tracked the root is not registered with the ResizeObserver.
C7_Teardown ==
  [][/\ \A t \in Targets : Reported(delivered', t) => t \in tracked
     /\ tracked' = {} => Root \notin Range(roTargets')]_vars

\* The targets a handler's step releases: what the consumer unobserved, or
\* disconnected, inside its callback.
ReleasedIn(before, after) == before \ after

\* C8: when the consumer calls unobserve(target) or disconnect() inside its
\* callback, invoked from a size-change delivery or from a visibility
\* notification, the handler does not throw and leaves the affected
\* elements with no tracked state, no live visibility subscription and no
\* size-change registration; and no callback invocation ever holds an entry
\* for a target that is not tracked.
C8_ReentrantCancel ==
  /\ [][last'.op \in {"resize", "initial", "intersect"} =>
          /\ ~last'.err
          /\ \A u \in ReleasedIn(tracked, tracked') :
               /\ u \notin Range(order')
               /\ ioLive'[u] = 0
               /\ u \notin Range(roTargets')
               /\ u \notin roPending']_vars
  /\ [][\A t \in Targets : Reported(delivered', t) => t \in tracked]_vars

\* A visibility notification of a tracked element whose callback unobserved
\* the element (or disconnected).
C8_Witness ==
  /\ last.op = "intersect"
  /\ ~last.err
  /\ Reported(delivered, last.t)
  /\ last.t \notin tracked

\* C9: once a tracker's cleanup function has been called (or its signal has
\* aborted), also from inside the callback during a refresh, no
\* IntersectionObserver and no ResizeObserver of the tracker is live, and the
\* callback is not invoked for it again.
C9_CancelFinal ==
  [][\A t \in Targets :
       /\ trk'[t].st = "released" => (ioLive'[t] = 0 /\ ~trk'[t].ro)
       /\ trk[t].st = "released" => ~Reported(delivered', t)]_vars

\* C10: disconnect() leaves no tracked element, no live IntersectionObserver
\* and no ResizeObserver registration, and does not throw; called again, or
\* on an engine that holds nothing, it changes nothing.
C10_DisconnectClears ==
  [][last'.op = "disconnect" =>
       /\ ~last'.err
       /\ order' = <<>>
       /\ tracked' = {}
       /\ \A t \in Targets : ioLive'[t] = 0 /\ el'[t] = InitEl
       /\ roTargets' = <<>>
       /\ roPending' = {}
       /\ (last.op \in {"init", "disconnect"} => UNCHANGED engineVars)]_vars

\* disconnect() was called on an engine with the root registered.
C10_Witness == last = Op("disconnect", Root, FALSE)

\* C11: unobserve(target) of a target that is not tracked, and a visibility
\* notification whose target has no tracked state, leave the tracked-element
\* map, every element's subscription, threshold and flag and the
\* ResizeObserver's registrations unchanged, invoke no callback and do not
\* throw.
C11_UntrackedNoOp ==
  [][((last'.op = "unobserve" /\ last'.t \notin tracked) \/ last'.op = "stale")
       => (UNCHANGED engineVars /\ delivered' = <<>> /\ ~last'.err)]_vars

\* A notification that was pending when its target was unobserved arrives
\* while another element is tracked with a live subscription.
C11_Witness ==
  /\ last.op = "stale"
  /\ last.t \notin tracked
  /\ \E u \in tracked : ioLive[u] = 1

\* C12: the root is registered with the ResizeObserver if and only if some
\* element is tracked (observed, and neither unobserved nor disconnected
\* since).
C12_RootIffTracked ==
  (Root \in Range(roTargets)) <=> (tracked # {})

\* Whether the tracker holds state for t: an entry of #elements, or a
\* vizObserver call that is not released.
HasState(t) ==
  IF impl = "legacy" THEN trk[t].st = "active" ELSE t \in Range(order)

\* C13: each target has at most one live IntersectionObserver, and none
\* while the tracker holds no state for it.
C13_OneSubscription ==
  \A t \in Targets :
    /\ ioLive[t] <= 1
    /\ ioLive[t] = 1 => HasState(t)

\* C14: after every step, #elements holds state for exactly the targets
\* that were observed and neither unobserved nor disconnected since; and a
\* platform callback (a size-change delivery or a visibility notification)
\* creates no state.
C14_StateIffObserved ==
  [][/\ Range(order') = tracked'
     /\ last'.op \in {"resize", "initial", "intersect", "stale"}
          => Range(order') \subseteq Range(order)]_vars

\* C15: the delivery of a size-change batch invokes the callback exactly
\* once; without a root entry in the batch the entry list has one entry per
\* notified element, in notification order; with a root entry it has exactly
\* one entry for every tracked element.
C15_BatchDelivery ==
  [][(last'.op \in {"resize", "initial"} /\ roPending # {}) =>
       /\ Len(delivered') = 1
       /\ LET batch == RoBatch(roTargets, roPending)
              got == delivered'[1]
          IN IF HasRootEntry(batch)
             THEN /\ Len(got) = Cardinality(tracked)
                  /\ { got[i].target : i \in 1..Len(got) } = tracked
             ELSE /\ Len(got) = Len(batch)
                  /\ \A i \in 1..Len(got) : got[i].target = batch[i].target]_vars

\* A ratio in (0, 1].
PositiveRatio(th) == 0 < th /\ th <= One

\* C16: the threshold stored for every tracked element lies in (0, 1], and
\* every IntersectionObserver, live or constructed by the last step, has a
\* threshold in (0, 1]: a first reading of 0.0 gives a positive threshold.
C16_ThresholdPositive ==
  /\ \A t \in Range(order) :
       /\ PositiveRatio(el[t].threshold)
       /\ el[t].io.st = "live" => PositiveRatio(el[t].io.threshold)
  /\ \A t \in Targets : trk[t].io.st = "live" => PositiveRatio(trk[t].io.threshold)
  /\ \A i \in 1..Len(constructed) : PositiveRatio(constructed[i].threshold)

\* A first reading of 0.0 was processed: the step constructed an
\* IntersectionObserver with the threshold 0.0000001.
C16_Witness ==
  /\ last.op \in {"intersect", "legacyIntersect"}
  /\ \E i \in 1..Len(constructed) : constructed[i].threshold = Epsilon

\* C17: a visibility notification that is the first reading of its
\* subscription, with a ratio different from the stored threshold, only stores
\* the ratio (0.0000001 for 0.0) as the threshold: the step constructs no
\* IntersectionObserver and does not invoke the callback.
C17_FirstReadingOnlyCalibrates ==
  [][\A t \in Targets, ratio \in Ratios :
       ( /\ Intersect(t, ratio, NoReaction)
         /\ Has(Cur, t)
         /\ el[t].isFirstUpdate
         /\ ratio # el[t].threshold )
       => /\ delivered' = <<>>
          /\ constructed' = <<>>
          /\ el'[t].threshold = Calibrated(ratio)]_vars

\* C18: a step that constructs an IntersectionObserver for an element
\* constructs it with threshold 1.0 and leaves the element, while it is
\* tracked with that subscription, with threshold 1.0 and isFirstUpdate true;
\* isFirstUpdate then stays true over every step that is not a visibility
\* notification of the element.
C18_SubscribingRefresh ==
  [][/\ \A i \in 1..Len(constructed') :
          LET t == constructed'[i].target
          IN /\ constructed'[i].threshold = One
             /\ (t \in Range(order') /\ el'[t].io.st = "live")
                  => (el'[t].threshold = One /\ el'[t].isFirstUpdate)
     /\ \A t \in Range(order) \cap Range(order') :
          ( /\ el[t].io.st = "live"
            /\ el[t].isFirstUpdate
            /\ el'[t].io.st = "live"
            /\ ~(last'.op = "intersect" /\ last'.t = t) )
          => el'[t].isFirstUpdate]_vars

\* C19: once the environment is at rest, with every IntersectionObserver of
\* the element delivering the same initial ratio, the tracker reaches a state
\* where the notification was absorbed: the last step constructed no
\* IntersectionObserver, so no notification is outstanding.
C19_ComesToRest ==
  (steady # NoSteady) ~> (steady # NoSteady /\ ~Pending(steady.t))

\* C20: a visibility notification of a tracked element whose ratio equals
\* the element's stored threshold invokes no callback and constructs no
\* IntersectionObserver; the threshold, the subscription and everything else
\* the tracker holds stay as they are, except isFirstUpdate, which is false
\* afterwards.
C20_SteadyNotification ==
  [][\A t \in Range(order) :
       Intersect(t, el[t].threshold, NoReaction)
       => /\ delivered' = <<>>
          /\ constructed' = <<>>
          /\ el' = [el EXCEPT ![t].isFirstUpdate = FALSE]
          /\ UNCHANGED <<order, rootRect, roTargets, roPending, ioLive, tracked>>]_vars

\* A notification was absorbed: it reached a tracked element with a live
\* IntersectionObserver and the callback was not invoked.
C20_Witness ==
  /\ last.op = "intersect"
  /\ last.t \in Range(order)
  /\ el[last.t].io.st = "live"
  /\ delivered = <<>>
  /\ constructed = <<>>
  /\ ~el[last.t].isFirstUpdate

\* The targets of a list of entries, in order.
TargetsOf(entries) == [i \in 1..Len(entries) |-> entries[i].target]

\* C21: a size-change batch with an entry for the root, delivered while
\* elements are tracked, invokes the callback once with one entry per tracked
\* element, in the order of the map, and constructs at most one
\* IntersectionObserver per element: no element is refreshed a second time
\* for its own entry in the batch.
C21_RootBatch ==
  [][(last'.op \in {"resize", "initial"} /\ Root \in roPending /\ tracked # {}) =>
       /\ Len(delivered') = 1
       /\ Len(delivered'[1]) = Cardinality(tracked)
       /\ Range(TargetsOf(delivered'[1])) = tracked
       /\ Range(order) = tracked => TargetsOf(delivered'[1]) = order
       /\ \A t \in Targets :
            Cardinality({ i \in 1..Len(constructed') : constructed'[i].target = t }) <= 1]_vars

\* A box with width = 0 and height = 0.
EmptyBox(b) == b.width = 0 /\ b.height = 0

\* C22: a step that refreshes a tracked element whose box has width = 0 and
\* height = 0 leaves it tracked with no live IntersectionObserver (unless
\* the consumer releases it in the callback); and a size-change delivery for
\* a tracked element without a live IntersectionObserver, or for the root,
\* that measures a box other than 0 x 0 constructs exactly one
\* IntersectionObserver for the element and reports isAppearing = true.
C22_SuspendResume ==
  [][\A t \in Range(order) :
       /\ ( /\ last'.op \in {"resize", "initial", "intersect"}
            /\ Reported(delivered', t)
            /\ EmptyBox(box[t])
            /\ t \in tracked' )
          => /\ t \in Range(order')
             /\ ioLive'[t] = 0
             /\ el'[t].io.st # "live"
             /\ \A e \in Entries(delivered') : e.target = t => ~e.isAppearing
       /\ ( /\ last'.op \in {"resize", "initial"}
            /\ ioLive[t] = 0
            /\ (t \in roPending \/ Root \in roPending)
            /\ ~EmptyBox(box[t]) )
          => /\ Cardinality({ i \in 1..Len(constructed') : constructed'[i].target = t }) = 1
             /\ \E e \in Entries(delivered') : e.target = t /\ e.isAppearing
             /\ t \in tracked' => ioLive'[t] = 1]_vars

\* An element whose IntersectionObserver had notified was refreshed with a
\* 0 x 0 box and is tracked without an IntersectionObserver; its box is no
\* longer 0 x 0 and the size-change notification is to be delivered.
C22_Witness ==
  \E t \in Range(order) :
    /\ ~el[t].isFirstUpdate
    /\ ioLive[t] = 0
    /\ ~EmptyBox(box[t])
    /\ t \in roPending
    /\ last = Op("setBox", t, FALSE)

\* The insets (top, right, bottom, left) of a viewport-relative box in a root
\* of the given size, scrolled as the root is.
Insets(b, dims) ==
  LET x == b.left + scroll.left
      y == b.top + scroll.top
  IN << Floor(y), Floor(dims.width - (x + b.width)),
        Floor(dims.height - (y + b.height)), Floor(x) >>

\* C23: every IntersectionObserver a step constructs has the rootMargin made
\* of the four insets of its element's box, top = floor(y), right =
\* floor(rootWidth - (x + width)), bottom = floor(rootHeight - (y + height)),
\* left = floor(x), with x = left + scrollLeft and y = top + scrollTop, each
\* negated; and the four insets are non-negative.
C23_Insets ==
  \A i \in 1..Len(constructed) :
    LET c == constructed[i]
        ins == Insets(box[c.target], RootDims(Cur))
    IN /\ c.rootMargin = << -ins[1], -ins[2], -ins[3], -ins[4] >>
       /\ \A k \in 1..4 : ins[k] >= 0

\* C24: a size-change delivery that processes the entry of a target with no
\* recorded state throws: it records no state for the target, constructs no
\* IntersectionObserver for it and reports no entry for it.
C24_NoRecordThrows ==
  [][\A t \in Targets :
       ( /\ last'.op \in {"resize", "initial"}
         /\ t \in roPending
         /\ Root \notin roPending
         /\ t \notin Range(order) )
       => /\ last'.err
          /\ t \notin Range(order')
          /\ \A i \in 1..Len(constructed') : constructed'[i].target # t
          /\ ~Reported(delivered', t)]_vars

\* C25: when a visibility notification of a tracked element is processed,
\* the threshold stored for the element, which the ratio is compared with,
\* is the threshold its live IntersectionObserver was constructed with.
C25_BaselineIsConfigured ==
  [][\A t \in Range(order) :
       (last'.op = "intersect" /\ last'.t = t /\ el[t].io.st = "live")
       => el[t].threshold = el[t].io.threshold]_vars

\* The trackers that were started and not cancelled.
ActiveTrackers == { t \in Targets : trk[t].st = "active" }

\* C26: after every step the root's resize subscription is enabled exactly
\* when a tracker is active, and activeObservers holds the handlers of the
\* active trackers; cancelling a tracker leaves the handlers of the other
\* active trackers in place, and cancelling a released tracker changes
\* nothing.
C26_SharedRootSubscription ==
  [][/\ globalResize' <=> (ActiveTrackers' # {})
     /\ Range(activeObservers') = ActiveTrackers'
     /\ last'.op = "cancel" =>
          /\ ActiveTrackers' = ActiveTrackers \ {last'.t}
          /\ Without(activeObservers, last'.t) = activeObservers'
          /\ trk[last'.t].st = "released" =>
               UNCHANGED <<legacyVars, ioLive, roPending, tracked>>]_vars

\* A tracker was cancelled while another one is active: the root's resize
\* subscription is enabled and the other handler is in activeObservers.
C26_Witness ==
  /\ last.op = "cancel"
  /\ trk[last.t].st = "released"
  /\ \E u \in Targets \ {last.t} : u \in ActiveTrackers /\ u \in Range(activeObservers)
  /\ globalResize

====
